---- MODULE Spec2Model ----
(***************************************************************************)
(* VetFoodRx scrape-normalize-persist pipeline.                            *)
(*                                                                         *)
(*   SpecExtract    extractProductData (comprehensive scraper) applied to  *)
(*                  a page, abstracted to the condition keywords its text  *)
(*                  includes, to the matches of the price, size and        *)
(*                  feature patterns in it and to the species and type     *)
(*                  words of its name and markup.                          *)
(*   SpecNormalize  processProducts (database updater) applied to two      *)
(*                  lists of scraped records, and the updater's handler    *)
(*                  applied to two scraper answers holding them.           *)
(*   Spec           one run of the manual update entry point, with the     *)
(*                  database updater, the comprehensive scraper and the    *)
(*                  snapshot file it drives.                               *)
(*   SpecFetch      one fetchPage call, request by request.                *)
(*   SpecScrape     one category scrape of the comprehensive scraper,      *)
(*                  batch by batch.                                        *)
(*   SpecBatch      the batch loop of a category scrape with the requests  *)
(*                  of its fetchPage calls.                                *)
(*   SpecPrice      one updateProductPrices call, entry by entry.          *)
(*   SpecConcurrent the scheduled price update next to a persisting full   *)
(*                  update, on one snapshot file.                          *)
(*   SpecCompare    the comparison list of the app.                        *)
(***************************************************************************)
EXTENDS Integers, Sequences, FiniteSets, TLC

VARIABLES
  textKw,        \* extractProductData: keywords that textToSearch includes
  matches,       \* extractProductData: what the patterns match in html
  pageUrl,       \* extractProductData: the argument productUrl
  extracted,     \* extractProductData: the returned record, NotYet before
  dogProducts,   \* processProducts: first argument
  catProducts,   \* processProducts: second argument
  allProducts,   \* processProducts: its outcome, NotYet before the call
  query,         \* manual handler: event.queryStringParameters
  pc,            \* manual handler: position in exports.handler
  dogResult,     \* database updater: outcome of fetchFromScraper('dog', 30)
  catResult,     \* database updater: outcome of fetchFromScraper('cat', 25)
  updateResult,  \* manual handler: what databaseUpdater returned
  result,        \* manual handler: the local variable result
  response,      \* manual handler: the returned {statusCode, body}
  fs,            \* the data directory: path -> content
  fsBefore,      \* the data directory when the run started
  fsLog,         \* the file-system calls the run has made, in order
  fetchRetries,  \* fetchPage: the retries argument of the call
  fetchLog,      \* fetchPage: the requests the call has started, in order
  fetchPhase,    \* fetchPage: what the newest request is doing
  fetchSettled,  \* fetchPage: how the returned promise settled, NotYet before
  scrapeEvent,   \* scraper handler: event.queryStringParameters
  scrapeSite,    \* scraper handler: the category of the site it is pointed at
  scrapePc,      \* scraper handler: position in exports.handler
  scrapeLinks,   \* scraper handler: productLinks, what scrapeCategoryPage returned
  batchStart,    \* scraper handler: the loop variable i
  scrapeProducts, \* scraper handler: the local list products
  pageFetches,   \* scraper handler: positions of the product links fetched
  scrapeResponse, \* scraper handler: the returned {statusCode, body}
  priceProducts, \* updateProductPrices: the argument products
  pricePc,       \* updateProductPrices: position in the function
  priceIdx,      \* updateProductPrices: entries the for loop has taken
  updatedProducts, \* updateProductPrices: the local list updatedProducts
  priceLog,      \* updateProductPrices: scrapes and waits so far, in order
  priceReturned, \* updateProductPrices: the returned list, NotYet before
  scheduledPc,   \* scheduled handler: position in exports.handler
  productData,   \* scheduled handler: what loadProductData returned, NotYet before
  scheduledResponse, \* scheduled handler: the returned {statusCode, body}
  compareItems, \* app: the state compareItems
  toggled, \* app: the product of the newest handleCompareToggle call, NotYet before
  compareBefore, \* app: compareItems as the newest call found it
  linkCount, \* scraper handler, request level: productLinks.length
  loopPc, \* scraper handler, request level: position in the batch loop
  loopI, \* scraper handler, request level: the loop variable i
  calls, \* scraper handler, request level: how many fetchPage calls are in each state
  dbResponse \* database updater: the response of one invocation, NotYet before

vars == <<textKw, matches, pageUrl, extracted, dogProducts, catProducts, allProducts, query, pc,
          dogResult, catResult, updateResult, result, response, fs, fsBefore,
          fsLog, fetchRetries, fetchLog, fetchPhase, fetchSettled,
          scrapeEvent, scrapeSite, scrapePc, scrapeLinks, batchStart,
          scrapeProducts, pageFetches, scrapeResponse, priceProducts,
          pricePc, priceIdx, updatedProducts, priceLog, priceReturned,
          scheduledPc, productData, scheduledResponse,
          compareItems, toggled, compareBefore,
          linkCount, loopPc, loopI, calls,
          dbResponse>>

extractVars == <<textKw, matches, pageUrl, extracted>>
normalizeVars == <<dogProducts, catProducts, allProducts>>
runVars == <<query, pc, dogResult, catResult, updateResult, result, response,
             fs, fsBefore, fsLog>>
fetchVars == <<fetchRetries, fetchLog, fetchPhase, fetchSettled>>
scrapeVars == <<scrapeEvent, scrapeSite, scrapePc, scrapeLinks, batchStart,
                scrapeProducts, pageFetches, scrapeResponse>>
priceVars == <<priceProducts, pricePc, priceIdx, updatedProducts, priceLog,
               priceReturned>>
scheduledVars == <<scheduledPc, productData, scheduledResponse>>
compareVars == <<compareItems, toggled, compareBefore>>
batchVars == <<linkCount, loopPc, loopI, calls>>
updaterVars == <<dbResponse>>

\* a string-valued field that is null / undefined / absent
Null == "null"
\* an outcome that does not exist yet
NotYet == [notYet |-> TRUE]
\* a call that threw instead of returning
Threw(msg) == [threw |-> msg]

\* a price field that is null / absent
NoPrice == [isNull |-> TRUE]

Min(a, b) == IF a <= b THEN a ELSE b
Range(s) == {s[i] : i \in 1..Len(s)}

\* the sequences over S of length at most n
SeqsUpTo(S, n) == UNION {[1..k -> S] : k \in 0..n}

(***************************************************************************)
(* extractProductData: targeted conditions                                 *)
(***************************************************************************)

\* bound: how many distinct condition keywords one page text holds
MaxKeywords == 4

conditionKeywords ==
  << "kidney disease", "renal", "urinary", "digestive", "gastrointestinal",
     "diabetes", "weight management", "obesity", "hepatic", "liver",
     "joint", "arthritis", "mobility", "skin", "food sensitivities",
     "allergies", "dental", "critical care", "hyperthyroidism",
     "pancreatitis", "heart", "cardiac" >>

\* Set.prototype.add on a Set kept in insertion order
SetAdd(s, x) == IF x \in Range(s) THEN s ELSE Append(s, x)

\* Array.prototype.slice(0, n)
Slice(s, n) == SubSeq(s, 1, Min(n, Len(s)))

\* conditionKeywords.forEach(... if (textToSearch.includes(condition)) add)
foundConditions(text) == SelectSeq(conditionKeywords, LAMBDA c : c \in text)

\* if (foundConditions.has(from)) foundConditions.add(to)
MapCondition(found, from, to) ==
  IF from \in Range(found) THEN SetAdd(found, to) ELSE found

\* the five "Map specific conditions" statements, in order
mapSpecificConditions(found) ==
  MapCondition(
    MapCondition(
      MapCondition(
        MapCondition(
          MapCondition(found, "renal", "kidney disease"),
          "gastrointestinal", "digestive"),
        "obesity", "weight management"),
      "arthritis", "joint"),
    "cardiac", "heart")

\* cap of product.targetedConditions
ConditionsCap == 4

targetedConditions(text) ==
  Slice(mapSpecificConditions(foundConditions(text)), ConditionsCap)

\* the NOTE every price built by extractProductData carries
ScrapedPriceNote ==
  "Estimated pricing - actual prices may vary by location and retailer"

(***************************************************************************)
(* extractProductData: price, bag sizes, features                          *)
(***************************************************************************)

\* bound: how many price-pattern matches one page holds
MaxPriceMatches == 3
\* bound: how many size-pattern matches one page holds
MaxSizeMatches == 6
\* bound: how many feature-pattern matches one page holds
MaxFeatureMatches == 8

\* match[1] of the three pricePatterns: the decimal literals a page shows
PriceLiterals ==
  << "4.99", "5", "5.01", "52.99", "54.99", "54.990", "499.99", "500" >>

\* parseFloat(match[1]), in hundredths
parseFloat(literal) ==
  CASE literal = "4.99" -> 499
    [] literal = "5" -> 500
    [] literal = "5.01" -> 501
    [] literal = "52.99" -> 5299
    [] literal = "54.99" -> 5499
    [] literal = "54.990" -> 5499
    [] literal = "499.99" -> 49999
    [] literal = "500" -> 50000

\* `${price}`: the shortest decimal literal of a number given in hundredths
numberToString(price) ==
  CASE price = 499 -> "4.99"
    [] price = 500 -> "5"
    [] price = 501 -> "5.01"
    [] price = 5299 -> "52.99"
    [] price = 5499 -> "54.99"
    [] price = 49999 -> "499.99"
    [] price = 50000 -> "500"

\* plausible gone wrong: the two ends of the interval are let in
plausibleInclusive(price) == price >= 500 /\ price <= 50000

\* if (price > 5 && price < 500)
plausible(price) == price > 500 /\ price < 50000

\* the three pattern loops: every match parsed, the plausible ones pushed
foundPrices(literals) ==
  SelectSeq([i \in 1..Len(literals) |-> parseFloat(literals[i])], plausible)

\* new Set(array): the array's values in first-occurrence order
RECURSIVE NewSet(_)
NewSet(array) ==
  IF array = <<>> THEN <<>>
  ELSE SetAdd(NewSet(SubSeq(array, 1, Len(array) - 1)), array[Len(array)])

\* uniquePrices gone wrong: repeated matches are kept
sortedPrices(found) == SortSeq(found, LAMBDA a, b : a < b)

\* [...new Set(foundPrices)].sort((a, b) => a - b)
uniquePrices(found) == SortSeq(NewSet(found), LAMBDA a, b : a < b)

\* array.reduce((sum, p) => sum + p, 0)
RECURSIVE Sum(_)
Sum(array) == IF array = <<>> THEN 0 ELSE Head(array) + Sum(Tail(array))

\* product.price; the quotient sum / length is kept as numerator and
\* denominator
extractPrice(literals) ==
  LET found == foundPrices(literals)
      unique == uniquePrices(found)
      lowest == unique[1]
      highest == unique[Len(unique)]
  IN IF Len(found) > 0
     THEN [estimate |-> lowest,
           range |-> IF Len(unique) > 1
                     THEN <<"$", numberToString(lowest), " - $", numberToString(highest)>>
                     ELSE <<"$", numberToString(lowest)>>,
           average |-> [num |-> Sum(unique), den |-> Len(unique)],
           note |-> ScrapedPriceNote]
     ELSE NoPrice

\* match[1] of the two sizePatterns; a capture starts with a digit and ends
\* with a letter, so trim() leaves it as it is
SizeTexts ==
  << "4 lb", "8.5 lb", "17.6 lb", "27.5 lb", "35 lb", "13 oz", "5.5 oz",
     "24 x 5.5 oz cans" >>

\* cap of product.bagSizes
BagSizesCap == 5

\* foundSizes after the two pattern loops
foundSizes(sizes) == NewSet(sizes)

\* bagSizes gone wrong: the slice is left out
bagSizesUncapped(sizes) == foundSizes(sizes)

\* Array.from(foundSizes).slice(0, 5)
bagSizes(sizes) == Slice(foundSizes(sizes), BagSizesCap)

\* match[1] of the two featurePatterns: the text between the tags, with the
\* count of code units trim() and replace(/\s+/g, ' ') take away, and the
\* length of what is left
FeatureCapture(text, padding, length) ==
  [text |-> text, padding |-> padding, length |-> length]

FeatureCaptures ==
  << FeatureCapture("Clinically proven nutrition", 0, 27),
     FeatureCapture("Clinically proven nutrition", 3, 27),
     FeatureCapture("Supports kidney health", 0, 22),
     FeatureCapture("Supports skin health", 0, 20),
     FeatureCapture("Formulated for urinary support", 0, 30),
     FeatureCapture("Designed by veterinary nutritionists ... (200 code units)", 0, 200),
     FeatureCapture("Supports a healthy immune system", 0, 32),
     FeatureCapture("Helps maintain lean muscle mass", 0, 31),
     FeatureCapture("Highly digestible formula for sensitive stomachs", 0, 48),
     FeatureCapture("Supports kidney health", 2, 22) >>

\* cap of product.features
FeaturesCap == 4

\* match[1].trim().replace(/\s+/g, ' ')
normalizeFeature(capture) == [text |-> capture.text, length |-> capture.length]

\* foundFeatures after the two pattern loops
foundFeatures(captures) ==
  LET normalized == [i \in 1..Len(captures) |-> normalizeFeature(captures[i])]
      kept == SelectSeq(normalized, LAMBDA f : f.length > 20 /\ f.length < 200)
  IN NewSet([i \in 1..Len(kept) |-> kept[i].text])

\* Array.from(foundFeatures).slice(0, 4)
features(captures) == Slice(foundFeatures(captures), FeaturesCap)

\* a page none of the price, size and feature patterns matches
\* the words the species and type tests look for in product.name ...
NameWords == {"dog", "cat", "dry", "wet", "can"}
\* ... and in html
MarkupWords == {"canine", "feline", "kibble", "canned"}

\* Determine species: name is the set of NameWords product.name || '' has
\* as whole words, markup the set of MarkupWords html contains
determineSpecies(name, markup) ==
  IF "dog" \in name \/ "canine" \in markup THEN "dog"
  ELSE IF "cat" \in name \/ "feline" \in markup THEN "cat"
  ELSE Null

\* Determine food type
determineType(name, markup) ==
  IF "dry" \in name \/ "kibble" \in markup THEN "dry"
  ELSE IF "wet" \in name \/ "canned" \in markup \/ "can" \in name THEN "wet"
  ELSE Null

\* a page none of the patterns matches; string tells whether html is a
\* string at all
NoMatches ==
  [prices |-> <<>>, sizes |-> <<>>, features |-> <<>>, name |-> {}, markup |-> {},
   string |-> TRUE]

\* the record as built before the try block
defaultProduct(productUrl) ==
  [targetedConditions |-> <<>>, price |-> NoPrice, bagSizes |-> <<>>,
   features |-> <<>>, species |-> Null, type |-> Null, link |-> productUrl]

\* extractProductData gone wrong: the exception of a failed extraction is
\* rethrown
extractRethrowing(text, html, productUrl) ==
  IF productUrl = Null \/ ~html.string
  THEN Threw("TypeError")
  ELSE [targetedConditions |-> targetedConditions(text),
        price |-> extractPrice(html.prices),
        bagSizes |-> bagSizes(html.sizes),
        features |-> features(html.features),
        species |-> determineSpecies(html.name, html.markup),
        type |-> determineType(html.name, html.markup),
        link |-> productUrl]

\* productUrl.match (line 308) throws when productUrl is not a string and
\* html.match (line 322) when html is not one; both are inside the try
\* block, whose catch block returns the record as it is by then
extractProductData(text, html, productUrl) ==
  IF productUrl = Null \/ ~html.string
  THEN defaultProduct(productUrl)
  ELSE [targetedConditions |-> targetedConditions(text),
        price |-> extractPrice(html.prices),
        bagSizes |-> bagSizes(html.sizes),
        features |-> features(html.features),
        species |-> determineSpecies(html.name, html.markup),
        type |-> determineType(html.name, html.markup),
        link |-> productUrl]

\* the address of a product page
PageUrl == "https://www.1800petmeds.com/hills-kd-product.html"

\* the sets of at most k keywords among conditionKeywords[i..]
RECURSIVE KeywordSets(_, _)
KeywordSets(i, k) ==
  IF i > Len(conditionKeywords) \/ k = 0 THEN {{}}
  ELSE KeywordSets(i + 1, k) \cup
       {T \cup {conditionKeywords[i]} : T \in KeywordSets(i + 1, k - 1)}

\* the lists of exactly n matches drawn from texts in which the texts make
\* their first appearance in the order of texts
RECURSIVE MatchListsOfLen(_, _)
MatchListsOfLen(texts, n) ==
  IF n = 0 THEN {<<>>}
  ELSE UNION {{Append(s, texts[j]) :
                 j \in 1..Min(Len(texts), Cardinality(Range(s)) + 1)} :
              s \in MatchListsOfLen(texts, n - 1)}

\* the same, of at most n matches
MatchLists(texts, n) == UNION {MatchListsOfLen(texts, k) : k \in 0..n}

ExtractIdle ==
  textKw = {} /\ matches = NoMatches /\ pageUrl = Null /\ extracted = NotYet

\* the pages extractProductData is applied to: each varies the keywords or
\* the matches of one group of patterns; the last ones are the calls whose
\* html or productUrl is not a string
ExtractInit ==
  /\ pageUrl \in {PageUrl, Null}
  /\ \/ /\ pageUrl = PageUrl
        /\ \/ /\ textKw \in KeywordSets(1, MaxKeywords)
              /\ matches = NoMatches
           \/ /\ textKw = {}
              /\ \E p \in SeqsUpTo(Range(PriceLiterals), MaxPriceMatches) :
                   matches = [NoMatches EXCEPT !.prices = p]
           \/ /\ textKw = {}
              /\ \E z \in MatchLists(SizeTexts, MaxSizeMatches) :
                   matches = [NoMatches EXCEPT !.sizes = z]
           \/ /\ textKw = {}
              /\ \E f \in MatchLists(FeatureCaptures, MaxFeatureMatches) :
                   matches = [NoMatches EXCEPT !.features = f]
           \/ /\ textKw = {}
              /\ \E name \in SUBSET NameWords, markup \in SUBSET MarkupWords :
                   matches = [NoMatches EXCEPT !.name = name, !.markup = markup]
     \/ /\ textKw \in {{}, {conditionKeywords[1]}}
        /\ matches \in {NoMatches, [NoMatches EXCEPT !.string = FALSE],
                        [NoMatches EXCEPT !.prices = <<"52.99">>, !.name = {"dog"}]}
        /\ pageUrl = Null \/ ~matches.string
  /\ extracted = NotYet

ExtractProductData ==
  /\ extracted = NotYet
  /\ extracted' = extractProductData(textKw, matches, pageUrl)
  /\ UNCHANGED <<textKw, matches, pageUrl>>

(***************************************************************************)
(* update-product-database.js: processProducts, generateFallbackImage      *)
(***************************************************************************)

\* bound: how many records one category list holds
MaxRecs == 2

\* a price as extractProductData builds it (one plausible price found)
ScrapedPrice == [estimate |-> 52, range |-> "$52", average |-> 52,
                 note |-> ScrapedPriceNote]

\* JavaScript truthiness of a string-valued field
Truthy(v) == v \notin {Null, ""}

\* records as the scraper's extractProductData leaves them; link names the page
RawProduct(name, brand, image, price, feedingGuide, link) ==
  [name |-> name, brand |-> brand, image |-> image, price |-> price,
   feedingGuide |-> feedingGuide, type |-> Null, link |-> link]

FullRecord    == RawProduct("N", "Wellness", "https://img/p.jpg", ScrapedPrice, "G", "/full")
NoImageRecord == RawProduct("N", "Wellness", Null, ScrapedPrice, "G", "/noimage")
NoPriceRecord == RawProduct("N", "Acme", "https://img/p.jpg", NoPrice, "G", "/noprice")
NoGuideRecord == RawProduct("N", "Acme", "https://img/p.jpg", ScrapedPrice, Null, "/noguide")
BareRecord    == RawProduct("N", "Acme", Null, NoPrice, Null, Null)
NoNameRecord  == RawProduct(Null, "Wellness", "https://img/p.jpg", ScrapedPrice, "G", "/noname")
NoBrandRecord == RawProduct("N", Null, "https://img/p.jpg", ScrapedPrice, "G", "/nobrand")

RawProducts == {FullRecord, NoImageRecord, NoPriceRecord, NoGuideRecord,
                BareRecord, NoNameRecord, NoBrandRecord}

\* if (product.name && product.brand)
Usable(product) == Truthy(product.name) /\ Truthy(product.brand)

\* const emoji = species === 'dog' ? ... : species === 'cat' ? ... : ...
\* as the UTF-16 code units of the chosen character
emojiOf(species) ==
  IF species = "dog" THEN <<55357, 56341>>
  ELSE IF species = "cat" THEN <<55357, 56369>>
  ELSE <<55357, 56382>>

brandColors ==
  [b \in {"Hill's Prescription Diet", "Royal Canin Veterinary Diet",
          "Purina Pro Plan Veterinary Diets", "Blue Buffalo", "Wellness"} |->
     CASE b = "Hill's Prescription Diet" -> "#2E7D32"
       [] b = "Royal Canin Veterinary Diet" -> "#FF6B35"
       [] b = "Purina Pro Plan Veterinary Diets" -> "#1976D2"
       [] b = "Blue Buffalo" -> "#0D47A1"
       [] b = "Wellness" -> "#388E3C"]

\* btoa(data): every code unit must fit Latin-1, else InvalidCharacterError
\* (where the runtime defines no btoa the call throws ReferenceError instead)
btoa(svg) ==
  IF \E i \in 1..Len(svg.emoji) : svg.emoji[i] > 255
  THEN Threw("InvalidCharacterError")
  ELSE [base64 |-> svg]

generateFallbackImage(species, type, brand) ==
  LET color == IF brand \in DOMAIN brandColors THEN brandColors[brand] ELSE "#87A96B"
      svg == [color |-> color, emoji |-> emojiOf(species), typeText |-> type,
              brandShort |-> brand, species |-> species]
      encoded == btoa(svg)
  IN IF "threw" \in DOMAIN encoded THEN encoded
     ELSE [url |-> <<"data:image/svg+xml;base64,", encoded.base64>>]

\* ProductId gone wrong: the counter is read after the increment
ProductIdPreIncrement(n) == "product-" \o ToString(n + 1)

\* id: `product-${idCounter++}`
ProductId(n) == "product-" \o ToString(n)

SynthesizedPriceNote ==
  "Estimated pricing - actual prices may vary by location and retailer"

\* Math.floor(Math.random() * 100) + 50  /  Math.floor(Math.random() * 80) + 40
\* with Math.random() given in hundredths (0..99)
syntheticEstimate(species, random) ==
  IF species = "dog" THEN random + 50 ELSE ((random * 80) \div 100) + 40

defaultFeedingGuide(species) ==
  IF species = "dog"
  THEN "Consult your veterinarian for precise feeding amounts based on your dog's weight, age, and activity level."
  ELSE "Consult your veterinarian for precise feeding amounts based on your cat's weight, age, and activity level."

\* the values Math.random() takes here, in hundredths
RandomValues == {0, 99}

\* how many Math.random() calls processProducts makes on these lists
RandomDraws(dog, cat) ==
  Len(SelectSeq(dog \o cat, LAMBDA p : Usable(p) /\ p.price = NoPrice))

\* the body of one forEach callback; st = {allProducts, idCounter, drawn}
\* or Threw once a callback has thrown
processOne(st, product, species, randoms) ==
  IF "threw" \in DOMAIN st THEN st
  ELSE IF ~Usable(product) THEN st
  ELSE
    LET type == IF Truthy(product.type) THEN product.type ELSE "dry"
        fallback == generateFallbackImage(species, type, product.brand)
        synth == product.price = NoPrice
    IN IF ~Truthy(product.image) /\ "threw" \in DOMAIN fallback THEN fallback
       ELSE
         [allProducts |-> Append(st.allProducts,
            [id |-> ProductId(st.idCounter),
             brand |-> product.brand,
             name |-> product.name,
             species |-> species,
             type |-> type,
             feedingGuide |-> IF Truthy(product.feedingGuide)
                              THEN product.feedingGuide
                              ELSE defaultFeedingGuide(species),
             image |-> IF Truthy(product.image) THEN [url |-> product.image]
                       ELSE fallback,
             price |-> IF synth
                       THEN [estimate |-> syntheticEstimate(species, randoms[st.drawn + 1]),
                             note |-> SynthesizedPriceNote]
                       ELSE product.price,
             link |-> IF Truthy(product.link) THEN product.link
                      ELSE "https://www.1800petmeds.com"]),
          idCounter |-> st.idCounter + 1,
          drawn |-> IF synth THEN st.drawn + 1 ELSE st.drawn]

RECURSIVE forEachProduct(_, _, _, _)
forEachProduct(st, products, species, randoms) ==
  IF products = <<>> THEN st
  ELSE forEachProduct(processOne(st, Head(products), species, randoms),
                      Tail(products), species, randoms)

\* returns the list allProducts, or Threw when a callback threw
processProducts(dog, cat, randoms) ==
  LET start == [allProducts |-> <<>>, idCounter |-> 1, drawn |-> 0]
      afterDog == forEachProduct(start, dog, "dog", randoms)
      afterCat == forEachProduct(afterDog, cat, "cat", randoms)
  IN IF "threw" \in DOMAIN afterCat THEN afterCat
     ELSE [returned |-> afterCat.allProducts]

NormalizeIdle == dogProducts = <<>> /\ catProducts = <<>> /\ allProducts = NotYet

NormalizeInit ==
  /\ dogProducts \in SeqsUpTo(RawProducts, MaxRecs)
  /\ catProducts \in SeqsUpTo(RawProducts, MaxRecs)
  /\ allProducts = NotYet

ProcessProducts ==
  /\ allProducts = NotYet
  /\ \E randoms \in [1..RandomDraws(dogProducts, catProducts) -> RandomValues] :
       allProducts' = processProducts(dogProducts, catProducts, randoms)
  /\ UNCHANGED <<dogProducts, catProducts>>

(***************************************************************************)
(* comprehensive scraper: scrapeCategoryPage and the category branch of    *)
(* exports.handler                                                         *)
(***************************************************************************)

\* bound: how many product links one category listing holds
MaxLinks == 2

\* a product link whose fetchPage rejects
FetchFailed == [fetchFailed |-> TRUE]

\* what a listed product link yields: the record extractProductData builds
\* from its page, or a failed fetch
PageOutcomes == {FullRecord, NoImageRecord, NoPriceRecord, NoNameRecord, FetchFailed}

\* a category of the retailer's site: its listing page and, per listed
\* link in page order, what that link yields
Sites ==
  {[listing |-> "unreachable", pages |-> <<>>]} \cup
  {[listing |-> "ok", pages |-> ps] : ps \in SeqsUpTo(PageOutcomes, MaxLinks)}

\* try { fetchPage(categoryUrl) ... slice(0, maxProducts) } catch { return [] }
scrapeCategoryPage(categorySite, maxProducts) ==
  IF categorySite.listing = "ok" THEN Slice(categorySite.pages, maxProducts)
  ELSE <<>>

concurrencyLimit == 5

\* scrapedFrom gone wrong: every page fetched yields a record
scrapedFromFetched(batch) ==
  SelectSeq(batch, LAMBDA page : page # FetchFailed)

\* one batch.map callback followed by the filter(p => p !== null)
scrapedFrom(batch) ==
  SelectSeq(batch, LAMBDA page : page # FetchFailed /\ Usable(page))

\* for (let i = 0; i < productLinks.length; i += concurrencyLimit)
RECURSIVE scrapeBatches(_, _, _)
scrapeBatches(productLinks, i, products) ==
  IF i >= Len(productLinks) THEN products
  ELSE scrapeBatches(productLinks, i + concurrencyLimit,
         products \o scrapedFrom(SubSeq(productLinks, i + 1,
                                        Min(i + concurrencyLimit, Len(productLinks)))))

\* the return of the "Invalid category" branch
InvalidCategory ==
  [statusCode |-> 400,
   body |-> [error |-> "Invalid category. Use \"dog\" or \"cat\"."]]

\* NoProductsFound gone wrong: an empty list of links is answered as a failure
NoProductsFailure(category) ==
  [statusCode |-> 500,
   body |-> [error |-> "Scraping failed", details |-> "No products found in category"]]

\* the return of the if (productLinks.length === 0) branch
NoProductsFound(category) ==
  [statusCode |-> 200,
   body |-> [success |-> TRUE, products |-> <<>>,
             message |-> "No products found in category",
             category |-> category]]

\* the return at the end of the try block
Scraped(category, scraped) ==
  [statusCode |-> 200,
   body |-> [success |-> TRUE, products |-> scraped,
             totalFound |-> Len(scraped), category |-> category]]

\* exports.handler of the comprehensive scraper, category given
comprehensiveScraper(category, maxProducts, categorySite) ==
  IF category \notin {"dog", "cat"}
  THEN InvalidCategory
  ELSE
    LET links == scrapeCategoryPage(categorySite, maxProducts)
    IN IF Len(links) = 0
       THEN NoProductsFound(category)
       ELSE Scraped(category, scrapeBatches(links, 0, <<>>))

(***************************************************************************)
(* update-product-database.js: fetchFromScraper and exports.handler        *)
(***************************************************************************)

\* how the HTTP request to the deployed scraper function ends
NetOutcomes == {"answered", "errorBody", "rejected"}

\* fetchFromScraper(category, maxProducts): the parsed JSON body, or a
\* rejection (request error, 120 s timeout, invalid JSON)
fetchFromScraper(category, maxProducts, categorySite, net) ==
  IF net = "rejected" THEN [rejected |-> "Request timeout"]
  ELSE IF net = "errorBody"
  THEN [error |-> "Scraping failed", details |-> "unexpected"]
  ELSE comprehensiveScraper(category, maxProducts, categorySite).body

Rejected(r) == "rejected" \in DOMAIN r
\* dogResult.success is truthy
Succeeded(r) == "success" \in DOMAIN r /\ r.success
\* dogResult.products || []
ProductsOf(r) == IF "products" \in DOMAIN r THEN r.products ELSE <<>>

\* scrapesFailed gone wrong: the update gives up only when both scrapes failed
scrapesBothFailed(dogRes, catRes) == ~Succeeded(dogRes) /\ ~Succeeded(catRes)

\* if (!dogResult.success || !catResult.success)
scrapesFailed(dogRes, catRes) == ~Succeeded(dogRes) \/ ~Succeeded(catRes)

\* every body or rejection fetchFromScraper can settle with
ScraperOutcomes(category, maxProducts) ==
  {fetchFromScraper(category, maxProducts, categorySite, net) :
     categorySite \in Sites, net \in NetOutcomes}

DogScrapeLimit == 30
CatScrapeLimit == 25

UpdaterError(details) ==
  [statusCode |-> 500,
   body |-> [success |-> FALSE, error |-> "Database update failed",
             details |-> details]]

\* exports.handler of the database updater, given what the two
\* fetchFromScraper promises settled with
databaseUpdater(dogRes, catRes, randoms) ==
  IF Rejected(dogRes) THEN UpdaterError(dogRes.rejected)
  ELSE IF Rejected(catRes) THEN UpdaterError(catRes.rejected)
  ELSE IF scrapesFailed(dogRes, catRes)
  THEN UpdaterError("Failed to scrape product data from one or more categories")
  ELSE
    LET dogs == ProductsOf(dogRes)
        cats == ProductsOf(catRes)
        processedProducts == processProducts(dogs, cats, randoms)
    IN IF "threw" \in DOMAIN processedProducts
       THEN UpdaterError(processedProducts.threw)
       ELSE [statusCode |-> 200,
             body |-> [success |-> TRUE,
                       message |-> "Product database updated successfully",
                       database |->
                         [products |-> processedProducts.returned,
                          totalProducts |-> Len(processedProducts.returned),
                          categories |-> [dog |-> Len(dogs), cat |-> Len(cats)],
                          source |-> "1800petmeds.com",
                          version |-> "2.0"]]]

\* a body the scraper answers with: success and the records it holds
ScraperBody(products) == [success |-> TRUE, products |-> products]

\* one invocation of the database updater whose two fetchFromScraper calls
\* were answered with the record lists dogProducts and catProducts
UpdateDatabase ==
  /\ allProducts = NotYet
  /\ dbResponse = NotYet
  /\ \E randoms \in [1..RandomDraws(dogProducts, catProducts) -> RandomValues] :
       dbResponse' = databaseUpdater(ScraperBody(dogProducts), ScraperBody(catProducts),
                                     randoms)
  /\ UNCHANGED normalizeVars

UpdaterIdle == dbResponse = NotYet

(***************************************************************************)
(* manual-price-update.js: saveProductData, scrapeSingleCategory and       *)
(* exports.handler                                                         *)
(***************************************************************************)

\* path.join(process.cwd(), 'data', 'products.json')
DataPath == "data/products.json"
\* a timestamp-suffixed sibling of the snapshot file
BackupPath == "data/products.json.<timestamp>"
Paths == {DataPath, BackupPath}

\* a path that does not exist
Absent == [absent |-> TRUE]
\* the snapshot an earlier run left
OldSnapshot == [products |-> <<>>, totalProducts |-> 0, version |-> "1.0"]
\* a file that a failed write left truncated
Truncated == [truncated |-> TRUE]

DefaultMaxProducts == 30

\* parseInt on the decimal strings the query carries
parseInt(str) ==
  CASE str = "0" -> 0 [] str = "1" -> 1 [] str = "2" -> 2 [] str = "3" -> 3

\* event.queryStringParameters; Null is a key the caller left out
Queries ==
  [category : {Null, "dog", "cat"},
   maxProducts : {Null, "1", "2"},
   saveToFile : {Null, "true"},
   fullUpdate : {Null, "true"}]

\* const { maxProducts = 30 } = ...; parseInt(maxProducts)
maxProductsOf(q) ==
  IF q.maxProducts = Null THEN DefaultMaxProducts ELSE parseInt(q.maxProducts)

\* scrapeSingleCategory(category, maxProducts): the parsed body, or Threw
scrapeSingleCategory(category, maxProducts, categorySite) ==
  LET res == comprehensiveScraper(category, maxProducts, categorySite)
  IN IF res.statusCode = 200 THEN res.body
     ELSE Threw("Scraping failed with status")

\* the return of the try block
Completed(q, results) ==
  [statusCode |-> 200,
   body |-> [success |-> TRUE, message |-> "Manual product update completed",
             results |-> results]]

\* the return of the catch block
Failed(q, message) ==
  [statusCode |-> 500,
   body |-> [success |-> FALSE, error |-> "Manual update failed",
             details |-> message]]

\* what the full-update branch does with updateResult: throw, save the
\* database and return, or return
afterUpdate(q, updated) ==
  IF updated.statusCode # 200 THEN "throw"
  ELSE IF q.saveToFile = "true" /\ updated.body.success THEN "save"
  ELSE "return"

\* afterSave gone wrong: a failed write is turned into a failed run
afterSaveChecked(q, results, written) ==
  IF written THEN Completed(q, results)
  ELSE Failed(q, "Error saving product database")

\* what the handler returns once saveProductData has settled; written is
\* the boolean saveProductData returned, which the handler drops
afterSave(q, results, written) == Completed(q, results)

\* the mock event the handler passes to databaseUpdater carries forceUpdate
\* only, and databaseUpdater asks the scraper for its own fixed limits
FullUpdate ==
  /\ pc = "start"
  /\ query.fullUpdate = "true"
  /\ \E dogRes \in ScraperOutcomes("dog", DogScrapeLimit),
        catRes \in ScraperOutcomes("cat", CatScrapeLimit) :
       \E randoms \in [1..RandomDraws(ProductsOf(dogRes), ProductsOf(catRes)) -> RandomValues] :
         LET updated == databaseUpdater(dogRes, catRes, randoms)
             step == afterUpdate(query, updated)
         IN /\ dogResult' = dogRes
            /\ catResult' = catRes
            /\ updateResult' = updated
            /\ result' = IF step = "throw" THEN result ELSE updated.body
            /\ response' = CASE step = "throw" ->
                                  Failed(query, "Full update failed with status 500")
                              [] step = "save" -> response
                              [] step = "return" -> Completed(query, updated.body)
            /\ pc' = IF step = "save" THEN "saving" ELSE "done"
  /\ UNCHANGED <<query, fs, fsBefore, fsLog>>

\* await saveProductData(result.database): fs.writeFile either writes the
\* file, or fails leaving it as it was or truncated; the catch returns false
\* and the handler does not read the returned value
SaveProductData ==
  /\ pc = "saving"
  /\ \E written \in BOOLEAN :
       /\ IF written
          THEN fs' = [fs EXCEPT ![DataPath] = result.database]
          ELSE fs' \in {fs, [fs EXCEPT ![DataPath] = Truncated]}
       /\ fsLog' = Append(fsLog, [op |-> "writeFile", path |-> DataPath,
                                  ok |-> written])
       /\ response' = afterSave(query, result, written)
  /\ pc' = "done"
  /\ UNCHANGED <<query, dogResult, catResult, updateResult, result, fsBefore>>

SingleCategory ==
  /\ pc = "start"
  /\ query.fullUpdate # "true"
  /\ query.category \in {"dog", "cat"}
  /\ \E categorySite \in Sites :
       LET scraped == scrapeSingleCategory(query.category, maxProductsOf(query), categorySite)
       IN IF "threw" \in DOMAIN scraped
          THEN result' = result /\ response' = Failed(query, scraped.threw)
          ELSE IF ~scraped.success
          THEN result' = scraped /\ response' = Failed(query, "Category scraping failed")
          ELSE result' = scraped /\ response' = Completed(query, scraped)
  /\ pc' = "done"
  /\ UNCHANGED <<query, dogResult, catResult, updateResult, fs, fsBefore, fsLog>>

BothCategories ==
  /\ pc = "start"
  /\ query.fullUpdate # "true"
  /\ query.category \notin {"dog", "cat"}
  /\ \E dogSite \in Sites, catSite \in Sites :
       LET dogRes == scrapeSingleCategory("dog", maxProductsOf(query), dogSite)
           catRes == scrapeSingleCategory("cat", maxProductsOf(query), catSite)
       IN IF "threw" \in DOMAIN dogRes
          THEN result' = result /\ response' = Failed(query, dogRes.threw)
          ELSE IF "threw" \in DOMAIN catRes
          THEN result' = result /\ response' = Failed(query, catRes.threw)
          ELSE LET both == [success |-> TRUE,
                            categories |-> [dog |-> dogRes, cat |-> catRes],
                            totalProducts |-> Len(ProductsOf(dogRes)) + Len(ProductsOf(catRes))]
               IN result' = both /\ response' = Completed(query, both)
  /\ pc' = "done"
  /\ UNCHANGED <<query, dogResult, catResult, updateResult, fs, fsBefore, fsLog>>

RunIdle ==
  /\ query = [category |-> Null, maxProducts |-> Null, saveToFile |-> Null,
              fullUpdate |-> Null]
  /\ pc = "idle"
  /\ dogResult = NotYet /\ catResult = NotYet /\ updateResult = NotYet
  /\ result = NotYet /\ response = NotYet
  /\ fs = [p \in Paths |-> Absent] /\ fsBefore = fs /\ fsLog = <<>>

RunInit ==
  /\ query \in Queries
  /\ pc = "start"
  /\ dogResult = NotYet /\ catResult = NotYet /\ updateResult = NotYet
  /\ result = NotYet /\ response = NotYet
  /\ fs \in {[p \in Paths |-> Absent],
             [p \in Paths |-> IF p = DataPath THEN OldSnapshot ELSE Absent]}
  /\ fsBefore = fs
  /\ fsLog = <<>>

(***************************************************************************)
(* comprehensive scraper: fetchPage                                        *)
(***************************************************************************)

\* bound: the largest retries argument a call is given
MaxRetries == 3
\* bound: how many redirects one call is led through
MaxRedirects == 2

\* the URLs of the retailer's site a call can be led to
Urls == {"/a", "/b"}

\* res.statusCode and res.headers.location of a response that has ended
Responses == [status : {200, 301, 404, 503}, location : Urls \cup {Null}]

\* a request that has not ended, failed or timed out yet
Pending == [pending |-> TRUE]

\* setTimeout(..., 1000): the delay of the retry timer, in milliseconds
RetryDelay == 1000

\* https.get(url, ...) made by fetchPage(url, retries); after tells what
\* started it (the call itself, the retry timer or a redirect) and delay
\* how long it was held back, in milliseconds
Request(url, retries, after) ==
  [url |-> url, retries |-> retries, after |-> after,
   delay |-> IF after = "timer" THEN RetryDelay ELSE 0, outcome |-> Pending]

\* redirectRetries gone wrong: following a redirect spends a retry
redirectRetriesSpent(retries) == retries - 1

\* fetchPage(res.headers.location, retries): the second argument
redirectRetries(retries) == retries

\* the error object of the 'error' event of the n-th request
TransportError(n) == [error |-> "ECONNRESET", request |-> n]
\* new Error(`HTTP ${res.statusCode}: ...`)
HttpError(status) == [error |-> "HTTP", status |-> status]
\* new Error('Request timeout')
TimeoutError == [error |-> "Request timeout"]

\* resolve(value) / reject(error) of the promise the call returned: the
\* promises of the retries and redirects are chained to it, and only the
\* first settlement of a promise counts
resolve(settled, value) == IF settled = NotYet THEN [resolved |-> value] ELSE settled
reject(settled, error) == IF settled = NotYet THEN [rejected |-> error] ELSE settled

\* the newest request of the log, with its outcome recorded
Ended(log, outcome) == [log EXCEPT ![Len(log)].outcome = outcome]

\* how many requests of the log were started by a redirect
Redirects(log) == Len(SelectSeq(log, LAMBDA q : q.after = "redirect"))

\* res.on('end'): resolve on 2xx, follow a 3xx that has a Location with the
\* same retries, reject on every other status
ResponseEnd ==
  /\ fetchPhase = "request"
  /\ \E res \in Responses :
       LET cur == fetchLog[Len(fetchLog)]
       IN IF res.status >= 200 /\ res.status < 300
          THEN /\ fetchLog' = Ended(fetchLog, res)
               /\ fetchSettled' = resolve(fetchSettled, [html |-> cur.url])
               /\ fetchPhase' = "stopped"
          ELSE IF res.status >= 300 /\ res.status < 400 /\ res.location # Null
          THEN /\ Redirects(fetchLog) < MaxRedirects
               /\ fetchLog' = Append(Ended(fetchLog, res),
                                     Request(res.location, redirectRetries(cur.retries),
                                             "redirect"))
               /\ fetchSettled' = fetchSettled
               /\ fetchPhase' = "request"
          ELSE /\ fetchLog' = Ended(fetchLog, res)
               /\ fetchSettled' = reject(fetchSettled, HttpError(res.status))
               /\ fetchPhase' = "stopped"
  /\ UNCHANGED fetchRetries

\* retryLeft gone wrong: the last retry is never made
retryLeftButOne(retries) == retries > 1

\* if (retries > 0)
retryLeft(retries) == retries > 0

\* request.on('error'): the request failed in transport, or it was destroyed
\* by the timeout callback and the runtime emits 'error' for that
RequestError ==
  /\ fetchPhase \in {"request", "destroyed"}
  /\ LET cur == fetchLog[Len(fetchLog)]
         error == TransportError(Len(fetchLog))
     IN /\ fetchLog' = IF fetchPhase = "request" THEN Ended(fetchLog, error)
                       ELSE fetchLog
        /\ IF retryLeft(cur.retries)
           THEN fetchPhase' = "wait" /\ fetchSettled' = fetchSettled
           ELSE fetchPhase' = "stopped" /\ fetchSettled' = reject(fetchSettled, error)
  /\ UNCHANGED fetchRetries

\* the callback of the retry timer: fetchPage(url, retries - 1)
RetryTimer ==
  /\ fetchPhase = "wait"
  /\ LET cur == fetchLog[Len(fetchLog)]
     IN fetchLog' = Append(fetchLog, Request(cur.url, cur.retries - 1, "timer"))
  /\ fetchPhase' = "request"
  /\ UNCHANGED <<fetchRetries, fetchSettled>>

\* the callback of request.setTimeout(30000, ...): request.destroy(), then
\* reject; whether the destroyed request emits 'error' is up to the runtime
RequestTimeout ==
  /\ fetchPhase = "request"
  /\ fetchLog' = Ended(fetchLog, [timeout |-> TRUE])
  /\ fetchSettled' = reject(fetchSettled, TimeoutError)
  /\ fetchPhase' = "destroyed"
  /\ UNCHANGED fetchRetries

FetchIdle ==
  /\ fetchRetries = 0 /\ fetchLog = <<>>
  /\ fetchPhase = "idle" /\ fetchSettled = NotYet

\* fetchPage(url, retries) has been called: the first request is under way
FetchInit ==
  /\ fetchRetries \in 0..MaxRetries
  /\ fetchLog = <<Request("/a", fetchRetries, "call")>>
  /\ fetchPhase = "request"
  /\ fetchSettled = NotYet

(***************************************************************************)
(* comprehensive scraper: exports.handler, category branch, step by step   *)
(***************************************************************************)

\* bound: how many product links the listing of the category holds
MaxListed == 6

\* const { maxProducts = 30 } = event.queryStringParameters
ScraperDefaultMax == 30

\* event.queryStringParameters of the scraper; Null is a key left out
ScrapeEvents == [category : {Null, "dog", "cat"}, maxProducts : {Null, "3"}]

\* the category the scraper is pointed at: its listing page and, per listed
\* link in page order, what that link yields
ListedOutcomes == {FullRecord, NoNameRecord, NoBrandRecord, FetchFailed}

ScrapeSites ==
  {[listing |-> "unreachable", pages |-> <<>>]} \cup
  {[listing |-> "ok", pages |-> ps] : ps \in SeqsUpTo(ListedOutcomes, MaxListed)}

\* if (!category || !['dog', 'cat'].includes(category.toLowerCase())) return 400
RejectCategory ==
  /\ scrapePc = "start"
  /\ scrapeEvent.category \notin {"dog", "cat"}
  /\ scrapeResponse' = InvalidCategory
  /\ scrapePc' = "done"
  /\ UNCHANGED <<scrapeEvent, scrapeSite, scrapeLinks, batchStart, scrapeProducts,
                 pageFetches>>

\* productLinks = await scrapeCategoryPage(categoryUrl, parseInt(maxProducts))
\* and the return when it is empty
ScrapeCategoryPage ==
  /\ scrapePc = "start"
  /\ scrapeEvent.category \in {"dog", "cat"}
  /\ LET maxProducts == IF scrapeEvent.maxProducts = Null THEN ScraperDefaultMax
                        ELSE parseInt(scrapeEvent.maxProducts)
         links == scrapeCategoryPage(scrapeSite, maxProducts)
     IN /\ scrapeLinks' = links
        /\ IF Len(links) = 0
           THEN /\ scrapeResponse' = NoProductsFound(scrapeEvent.category)
                /\ scrapePc' = "done"
           ELSE /\ scrapeResponse' = scrapeResponse
                /\ scrapePc' = "batches"
  /\ UNCHANGED <<scrapeEvent, scrapeSite, batchStart, scrapeProducts, pageFetches>>

\* one round of the for loop: the batch is fetched and extracted, the
\* records that are not null are pushed; after the last round, the return
ScrapeBatch ==
  /\ scrapePc = "batches"
  /\ batchStart < Len(scrapeLinks)
  /\ LET last == Min(batchStart + concurrencyLimit, Len(scrapeLinks))
         batch == SubSeq(scrapeLinks, batchStart + 1, last)
         scraped == scrapeProducts \o scrapedFrom(batch)
     IN /\ pageFetches' = pageFetches \o [k \in 1..Len(batch) |-> batchStart + k]
        /\ scrapeProducts' = scraped
        /\ batchStart' = batchStart + concurrencyLimit
        /\ IF batchStart + concurrencyLimit < Len(scrapeLinks)
           THEN scrapeResponse' = scrapeResponse /\ scrapePc' = "batches"
           ELSE /\ scrapeResponse' = Scraped(scrapeEvent.category, scraped)
                /\ scrapePc' = "done"
  /\ UNCHANGED <<scrapeEvent, scrapeSite, scrapeLinks>>

ScrapeIdle ==
  /\ scrapeEvent = [category |-> Null, maxProducts |-> Null]
  /\ scrapeSite = [listing |-> "unreachable", pages |-> <<>>]
  /\ scrapePc = "idle"
  /\ scrapeLinks = <<>> /\ batchStart = 0 /\ scrapeProducts = <<>>
  /\ pageFetches = <<>> /\ scrapeResponse = NotYet

ScrapeInit ==
  /\ scrapeEvent \in ScrapeEvents
  /\ scrapeSite \in ScrapeSites
  /\ scrapePc = "start"
  /\ scrapeLinks = <<>> /\ batchStart = 0 /\ scrapeProducts = <<>>
  /\ pageFetches = <<>> /\ scrapeResponse = NotYet

(***************************************************************************)
(* scheduled price update: productPriceScraper and updateProductPrices     *)
(***************************************************************************)

\* bound: how many entries the product list holds
MaxEntries == 3

\* PRODUCT_MAPPINGS gone wrong: an id of the normalizer is among the keys
mappingsWithNormalizerId ==
  [id \in {"hills-kd-dog-dry", "product-1"} |->
     [petmeds |-> "hills-prescription-diet-k-d-kidney-care-dry-dog-food",
      wag |-> "hills-prescription-diet-kd-kidney-care-dry-dog-food"]]

\* PRODUCT_MAPPINGS
PRODUCT_MAPPINGS ==
  [id \in
     {"hills-kd-dog-dry", "hills-kd-dog-wet", "hills-wd-dog-dry",
      "hills-id-dog-dry", "hills-zd-dog-dry", "hills-cd-cat-dry",
      "hills-yd-cat-dry", "rc-renal-dog-dry", "rc-urinary-dog-dry",
      "ppvd-en-dog-dry", "ppvd-om-dog-dry"} |->
     CASE id = "hills-kd-dog-dry" ->
            [petmeds |-> "hills-prescription-diet-k-d-kidney-care-dry-dog-food",
             wag |-> "hills-prescription-diet-kd-kidney-care-dry-dog-food"]
       [] id = "hills-kd-dog-wet" ->
            [petmeds |-> "hills-prescription-diet-k-d-kidney-care-canned-dog-food",
             wag |-> "hills-prescription-diet-kd-kidney-care-wet-dog-food"]
       [] id = "hills-wd-dog-dry" ->
            [petmeds |-> "hills-prescription-diet-w-d-multi-benefit-dry-dog-food",
             wag |-> "hills-prescription-diet-wd-weight-management-dry-dog-food"]
       [] id = "hills-id-dog-dry" ->
            [petmeds |-> "hills-prescription-diet-i-d-digestive-care-dry-dog-food",
             wag |-> "hills-prescription-diet-id-digestive-care-dry-dog-food"]
       [] id = "hills-zd-dog-dry" ->
            [petmeds |-> "hills-prescription-diet-z-d-skin-food-sensitivities-dry-dog-food",
             wag |-> "hills-prescription-diet-zd-food-sensitivities-dry-dog-food"]
       [] id = "hills-cd-cat-dry" ->
            [petmeds |-> "hills-prescription-diet-c-d-multicare-urinary-care-dry-cat-food",
             wag |-> "hills-prescription-diet-cd-multicare-urinary-care-dry-cat-food"]
       [] id = "hills-yd-cat-dry" ->
            [petmeds |-> "hills-prescription-diet-y-d-thyroid-care-dry-cat-food",
             wag |-> "hills-prescription-diet-yd-thyroid-care-dry-cat-food"]
       [] id = "rc-renal-dog-dry" ->
            [petmeds |-> "royal-canin-veterinary-diet-renal-support-a-dry-dog-food",
             wag |-> "royal-canin-veterinary-diet-renal-support-dry-dog-food"]
       [] id = "rc-urinary-dog-dry" ->
            [petmeds |-> "royal-canin-veterinary-diet-urinary-so-dry-dog-food",
             wag |-> "royal-canin-veterinary-diet-urinary-so-dry-dog-food"]
       [] id = "ppvd-en-dog-dry" ->
            [petmeds |-> "purina-pro-plan-veterinary-diets-en-gastroenteric-dry-dog-food",
             wag |-> "purina-pro-plan-veterinary-diets-en-gastroenteric-dry-dog-food"]
       [] id = "ppvd-om-dog-dry" ->
            [petmeds |-> "purina-pro-plan-veterinary-diets-om-overweight-management-dry-dog-food",
             wag |-> "purina-pro-plan-veterinary-diets-om-overweight-management-dry-dog-food"]]

\* const mapping = PRODUCT_MAPPINGS[product.id]; if (!mapping)
Mapped(product) == product.id \in DOMAIN PRODUCT_MAPPINGS

\* what scrape1800PetMeds / scrapeWag return: the lowest price of the page in
\* hundredths, 0 standing for null (no price matched, or the fetch failed)
PetmedsPrices == {0, 5299}
WagPrices == {0, 5499}

\* Math.round(average * 100) / 100 of the mean of the prices, in hundredths
roundedAverage(prices) == (2 * Sum(prices) + Len(prices)) \div (2 * Len(prices))

\* exports.handler of productPriceScraper, given what the two retailer
\* scrapes returned; averagePrice 0 stands for null
scrapePrices(mockEvent, petmedsPrice, wagPrice) ==
  LET params == mockEvent.queryStringParameters
  IN IF ~Truthy(params.petmedsSlug) /\ ~Truthy(params.wagSlug)
     THEN [statusCode |-> 400,
           body |-> [error |-> "Missing product slug parameters. Provide petmedsSlug and/or wagSlug."]]
     ELSE
       LET found == SelectSeq(<<IF Truthy(params.petmedsSlug) THEN petmedsPrice ELSE 0,
                                IF Truthy(params.wagSlug) THEN wagPrice ELSE 0>>,
                              LAMBDA price : price # 0)
       IN [statusCode |-> 200,
           body |-> [productId |-> params.productId,
                     sources |-> found,
                     averagePrice |-> IF Len(found) > 0 THEN roundedAverage(found) ELSE 0,
                     timestamp |-> "<now>"]]

\* everything await scrapePrices(mockEvent, {}) followed by JSON.parse can
\* end with: a parsed answer, or an exception
ScrapeResults(mockEvent) ==
  {scrapePrices(mockEvent, p, w) : p \in PetmedsPrices, w \in WagPrices}
    \cup {Threw("scrapePrices failed")}

\* priceFound gone wrong: the average price is not looked at
statusOk(res) == res.statusCode = 200

\* if (result.statusCode === 200 && responseData.averagePrice)
priceFound(res) == res.statusCode = 200 /\ res.body.averagePrice # 0

\* { ...product, price: { average, sources, lastUpdated } }
updatedProduct(product, responseData) ==
  [product EXCEPT !.price = [average |-> responseData.averagePrice,
                             sources |-> responseData.sources,
                             lastUpdated |-> responseData.timestamp]]

\* setTimeout(resolve, 2000): the rate-limiting wait, in milliseconds
RateLimitDelay == 2000

\* a price as an earlier run left it
OldPrice == [average |-> 4999, sources |-> <<4999>>, lastUpdated |-> "<before>"]

\* the entries of data/products.json
ProductEntries ==
  {[id |-> "hills-kd-dog-dry", name |-> "k/d Kidney Care", price |-> OldPrice],
   [id |-> "rc-renal-dog-dry", name |-> "Renal Support", price |-> NoPrice],
   [id |-> "product-1", name |-> "N", price |-> ScrapedPrice]}

\* the loop body for an entry without mapping: push(product); continue
SkipUnmapped ==
  /\ pricePc = "loop"
  /\ priceIdx < Len(priceProducts)
  /\ ~Mapped(priceProducts[priceIdx + 1])
  /\ updatedProducts' = Append(updatedProducts, priceProducts[priceIdx + 1])
  /\ priceIdx' = priceIdx + 1
  /\ UNCHANGED <<priceProducts, pricePc, priceLog, priceReturned>>

\* the try block up to the wait, and the catch block
ScrapeEntry ==
  /\ pricePc = "loop"
  /\ priceIdx < Len(priceProducts)
  /\ Mapped(priceProducts[priceIdx + 1])
  /\ LET product == priceProducts[priceIdx + 1]
         mapping == PRODUCT_MAPPINGS[product.id]
         mockEvent == [queryStringParameters |->
                         [petmedsSlug |-> mapping.petmeds, wagSlug |-> mapping.wag,
                          productId |-> product.id]]
     IN \E res \in ScrapeResults(mockEvent) :
          /\ priceLog' = Append(priceLog, [event |-> "scrape", entry |-> priceIdx + 1,
                                           result |-> res])
          /\ IF "threw" \in DOMAIN res
             THEN /\ updatedProducts' = Append(updatedProducts, product)
                  /\ priceIdx' = priceIdx + 1
                  /\ pricePc' = "loop"
             ELSE /\ updatedProducts' =
                       Append(updatedProducts,
                              IF priceFound(res)
                              THEN updatedProduct(product, res.body)
                              ELSE product)
                  /\ priceIdx' = priceIdx
                  /\ pricePc' = "waiting"
  /\ UNCHANGED <<priceProducts, priceReturned>>

\* await new Promise(resolve => setTimeout(resolve, 2000)) is over
RateLimitWait ==
  /\ pricePc = "waiting"
  /\ priceLog' = Append(priceLog, [event |-> "wait", entry |-> priceIdx + 1,
                                   result |-> [ms |-> RateLimitDelay]])
  /\ priceIdx' = priceIdx + 1
  /\ pricePc' = "loop"
  /\ UNCHANGED <<priceProducts, updatedProducts, priceReturned>>

\* return updatedProducts
ReturnUpdated ==
  /\ pricePc = "loop"
  /\ priceIdx = Len(priceProducts)
  /\ priceReturned' = [returned |-> updatedProducts]
  /\ pricePc' = "returned"
  /\ UNCHANGED <<priceProducts, priceIdx, updatedProducts, priceLog>>

PriceIdle ==
  /\ priceProducts = <<>> /\ pricePc = "idle" /\ priceIdx = 0
  /\ updatedProducts = <<>> /\ priceLog = <<>> /\ priceReturned = NotYet

\* the products of a snapshot: a catalog of entries as shipped, or what
\* processProducts made of two lists of scraped records
PriceInit ==
  /\ \/ priceProducts \in SeqsUpTo(ProductEntries, MaxEntries)
     \/ \E dog \in SeqsUpTo({FullRecord, NoPriceRecord, NoNameRecord}, MaxRecs),
           cat \in SeqsUpTo({FullRecord, NoPriceRecord, NoNameRecord}, MaxRecs) :
          \E randoms \in [1..RandomDraws(dog, cat) -> RandomValues] :
            priceProducts = processProducts(dog, cat, randoms).returned
  /\ pricePc = "loop" /\ priceIdx = 0
  /\ updatedProducts = <<>> /\ priceLog = <<>> /\ priceReturned = NotYet

(***************************************************************************)
(* scheduled price update: loadProductData, saveProductData and            *)
(* exports.handler, run next to a full update of the manual handler        *)
(***************************************************************************)

\* data/products.json as the repository ships it: a catalog whose ids are
\* keys of PRODUCT_MAPPINGS
CuratedSnapshot ==
  [products |-> <<[id |-> "hills-kd-dog-dry", name |-> "k/d Kidney Care", price |-> OldPrice],
                  [id |-> "rc-renal-dog-dry", name |-> "Renal Support", price |-> NoPrice]>>,
   totalProducts |-> 2, version |-> "1.0"]

\* loadProductData: the parsed file, or { products: [] } when readFile or
\* JSON.parse throws
loadProductData(file) ==
  IF file \in {Absent, Truncated} THEN [products |-> <<>>] ELSE file

\* { ...productData, products: updatedProducts, lastPriceUpdate }
updatedData(data, updated) ==
  [f \in DOMAIN data \cup {"products", "lastPriceUpdate"} |->
     CASE f = "products" -> updated
       [] f = "lastPriceUpdate" -> "<now>"
       [] OTHER -> data[f]]

\* the handler up to the call of updateProductPrices: load the file and
\* return at once when it holds no products
LoadProductData ==
  /\ scheduledPc = "start"
  /\ LET data == loadProductData(fs[DataPath])
     IN /\ productData' = data
        /\ IF data.products = <<>>
           THEN /\ scheduledResponse' =
                     [statusCode |-> 200,
                      body |-> [message |-> "No products found to update"]]
                /\ scheduledPc' = "done"
                /\ UNCHANGED priceVars
           ELSE /\ scheduledPc' = "updating"
                /\ priceProducts' = data.products
                /\ pricePc' = "loop" /\ priceIdx' = 0
                /\ UNCHANGED <<scheduledResponse, updatedProducts, priceLog, priceReturned>>
  /\ UNCHANGED runVars

\* the handler once updateProductPrices has returned: saveProductData
\* writes the file or rethrows, and the catch block answers 500
SaveUpdatedData ==
  /\ scheduledPc = "updating"
  /\ pricePc = "returned"
  /\ \E written \in BOOLEAN :
       IF written
       THEN /\ fs' = [fs EXCEPT ![DataPath] =
                                  updatedData(productData, priceReturned.returned)]
            /\ scheduledResponse' =
                 [statusCode |-> 200,
                  body |-> [message |-> "Price update completed successfully",
                            productsProcessed |-> Len(priceReturned.returned)]]
       ELSE /\ fs' \in {fs, [fs EXCEPT ![DataPath] = Truncated]}
            /\ scheduledResponse' =
                 [statusCode |-> 500, body |-> [error |-> "Price update failed"]]
  /\ scheduledPc' = "done"
  /\ UNCHANGED <<query, pc, dogResult, catResult, updateResult, result, response,
                 fsBefore, fsLog, productData, priceVars>>

ScheduledIdle ==
  scheduledPc = "idle" /\ productData = NotYet /\ scheduledResponse = NotYet

\* both handlers invoked: a full update that persists its snapshot, and the
\* scheduled price update, over the shipped catalog
ConcurrentInit ==
  /\ query = [category |-> Null, maxProducts |-> Null, saveToFile |-> "true",
              fullUpdate |-> "true"]
  /\ pc = "start"
  /\ dogResult = NotYet /\ catResult = NotYet /\ updateResult = NotYet
  /\ result = NotYet /\ response = NotYet
  /\ fs = [p \in Paths |-> IF p = DataPath THEN CuratedSnapshot ELSE Absent]
  /\ fsBefore = fs
  /\ fsLog = <<>>
  /\ scheduledPc = "start" /\ productData = NotYet /\ scheduledResponse = NotYet
  /\ PriceIdle

(***************************************************************************)
(* app.js: the comparison list                                             *)
(***************************************************************************)

\* bound: how many products the loaded catalog holds
MaxCatalog == 6

\* Limit comparison to three items
CompareLimit == 3

\* the products the cards are rendered from; ids are unique in the catalog
Catalog == {[id |-> ProductId(n), name |-> "Diet " \o ToString(n)] : n \in 1..MaxCatalog}

\* what Array.prototype.find returns when no item passes the test
Undefined == [undefined |-> TRUE]

\* prev.find((item) => item.id === product.id)
FindById(prev, product) ==
  LET hits == SelectSeq(prev, LAMBDA item : item.id = product.id)
  IN IF hits = <<>> THEN Undefined ELSE hits[1]

\* handleCompareToggle gone wrong: the limit is not looked at
toggleUnlimited(prev, product) ==
  IF FindById(prev, product) # Undefined
  THEN SelectSeq(prev, LAMBDA item : item.id # product.id)
  ELSE Append(prev, product)

\* the updater handleCompareToggle passes to setCompareItems
handleCompareToggle(prev, product) ==
  LET exists == FindById(prev, product)
  IN IF exists # Undefined
     THEN SelectSeq(prev, LAMBDA item : item.id # product.id)
     ELSE IF Len(prev) >= CompareLimit THEN prev
     ELSE Append(prev, product)

\* the compare control of one card is clicked
HandleCompareToggle ==
  \E product \in Catalog :
    /\ compareItems' = handleCompareToggle(compareItems, product)
    /\ toggled' = product
    /\ compareBefore' = compareItems

CompareIdle == compareItems = <<>> /\ toggled = NotYet /\ compareBefore = <<>>

\* useState([])
CompareInit == compareItems = <<>> /\ toggled = NotYet /\ compareBefore = <<>>

(***************************************************************************)
(* comprehensive scraper: the batch loop of exports.handler and the        *)
(* requests of its fetchPage calls                                         *)
(***************************************************************************)

\* function fetchPage(url, retries = 3)
DefaultRetries == 3

\* one fetchPage(link) call of the loop: what its newest request is doing
\* (as fetchPhase), the retries that request was started with, and whether
\* the promise the call returned has settled. A redirect ends one request
\* and starts the next within ResponseEnd and is not told apart here.
CallStates ==
  [phase : {"request", "wait", "destroyed", "stopped"},
   retries : 0..DefaultRetries,
   settled : BOOLEAN]

\* fetchPage(link) has just been called
Called == [phase |-> "request", retries |-> DefaultRetries, settled |-> FALSE]

\* the calls, one of them gone from state from to state to
Moved(bag, from, to) ==
  [s \in CallStates |->
     bag[s] + (IF s = to THEN 1 ELSE 0) - (IF s = from THEN 1 ELSE 0)]

\* the requests that are on the wire
InFlight(bag) ==
  LET states == {s \in CallStates : s.phase = "request"}
      RECURSIVE Total(_)
      Total(S) == IF S = {} THEN 0
                  ELSE LET s == CHOOSE x \in S : TRUE IN bag[s] + Total(S \ {s})
  IN Total(states)

\* the calls whose promise has not settled
Unsettled(bag) == {s \in CallStates : bag[s] > 0 /\ ~s.settled}

\* batch = productLinks.slice(i, i + concurrencyLimit); batch.map(...): one
\* fetchPage call per link of the batch, made at the start of the loop body
\* or when the delay after the batch before has run out
StartBatch ==
  /\ loopPc \in {"loop", "delay"}
  /\ loopI < linkCount
  /\ calls' = [calls EXCEPT ![Called] = @ + Min(concurrencyLimit, linkCount - loopI)]
  /\ loopPc' = "awaiting"
  /\ UNCHANGED <<linkCount, loopI>>

\* await Promise.all(batchPromises) is over: every call of the batch has
\* settled; then the delay between batches, or the end of the loop
BatchSettled ==
  /\ loopPc = "awaiting"
  /\ Unsettled(calls) = {}
  /\ loopI' = loopI + concurrencyLimit
  /\ loopPc' = IF loopI + concurrencyLimit < linkCount THEN "delay" ELSE "done"
  /\ UNCHANGED <<linkCount, calls>>

\* the loop is not entered: productLinks is empty
NoBatch ==
  /\ loopPc = "loop"
  /\ linkCount = 0
  /\ loopPc' = "done"
  /\ UNCHANGED <<linkCount, loopI, calls>>

\* ResponseEnd for one of the calls: the response settles the promise
\* unless it has settled before
CallResponseEnd ==
  /\ \E s \in CallStates :
       /\ calls[s] > 0
       /\ s.phase = "request"
       /\ calls' = Moved(calls, s, [s EXCEPT !.phase = "stopped", !.settled = TRUE])
  /\ UNCHANGED <<linkCount, loopPc, loopI>>

\* RequestError for one of the calls
CallRequestError ==
  /\ \E s \in CallStates :
       /\ calls[s] > 0
       /\ s.phase \in {"request", "destroyed"}
       /\ calls' = Moved(calls, s,
                         IF retryLeft(s.retries)
                         THEN [s EXCEPT !.phase = "wait"]
                         ELSE [s EXCEPT !.phase = "stopped", !.settled = TRUE])
  /\ UNCHANGED <<linkCount, loopPc, loopI>>

\* RetryTimer for one of the calls
CallRetryTimer ==
  /\ \E s \in CallStates :
       /\ calls[s] > 0
       /\ s.phase = "wait"
       /\ calls' = Moved(calls, s,
                         [s EXCEPT !.phase = "request", !.retries = s.retries - 1])
  /\ UNCHANGED <<linkCount, loopPc, loopI>>

\* RequestTimeout for one of the calls
CallRequestTimeout ==
  /\ \E s \in CallStates :
       /\ calls[s] > 0
       /\ s.phase = "request"
       /\ calls' = Moved(calls, s, [s EXCEPT !.phase = "destroyed", !.settled = TRUE])
  /\ UNCHANGED <<linkCount, loopPc, loopI>>

BatchIdle ==
  /\ linkCount = 0 /\ loopPc = "idle" /\ loopI = 0
  /\ calls = [s \in CallStates |-> 0]

\* const products = []; const concurrencyLimit = 5; for (let i = 0; ...
BatchInit ==
  /\ linkCount \in 0..MaxListed
  /\ loopPc = "loop" /\ loopI = 0
  /\ calls = [s \in CallStates |-> 0]

(***************************************************************************)
(* Specifications                                                          *)
(***************************************************************************)

Init == RunInit /\ ExtractIdle /\ NormalizeIdle /\ FetchIdle /\ ScrapeIdle /\ PriceIdle /\ ScheduledIdle /\ CompareIdle /\ BatchIdle /\ UpdaterIdle

Next ==
  \/ FullUpdate /\ UNCHANGED <<extractVars, normalizeVars, fetchVars, scrapeVars, priceVars, scheduledVars, compareVars, batchVars, updaterVars>>
  \/ SaveProductData /\ UNCHANGED <<extractVars, normalizeVars, fetchVars, scrapeVars, priceVars, scheduledVars, compareVars, batchVars, updaterVars>>
  \/ SingleCategory /\ UNCHANGED <<extractVars, normalizeVars, fetchVars, scrapeVars, priceVars, scheduledVars, compareVars, batchVars, updaterVars>>
  \/ BothCategories /\ UNCHANGED <<extractVars, normalizeVars, fetchVars, scrapeVars, priceVars, scheduledVars, compareVars, batchVars, updaterVars>>

Spec == Init /\ [][Next]_vars

InitExtract ==
  ExtractInit /\ NormalizeIdle /\ RunIdle /\ FetchIdle /\ ScrapeIdle /\ PriceIdle /\ ScheduledIdle /\ CompareIdle /\ BatchIdle /\ UpdaterIdle

NextExtract ==
  ExtractProductData /\ UNCHANGED <<normalizeVars, runVars, fetchVars, scrapeVars, priceVars, scheduledVars, compareVars, batchVars, updaterVars>>

SpecExtract == InitExtract /\ [][NextExtract]_vars

InitNormalize ==
  NormalizeInit /\ ExtractIdle /\ RunIdle /\ FetchIdle /\ ScrapeIdle /\ PriceIdle /\ ScheduledIdle /\ CompareIdle /\ BatchIdle /\ UpdaterIdle

NextNormalize ==
  \/ ProcessProducts /\ UNCHANGED <<extractVars, runVars, fetchVars, scrapeVars, priceVars, scheduledVars, compareVars, batchVars, updaterVars>>
  \/ UpdateDatabase /\ UNCHANGED <<extractVars, runVars, fetchVars, scrapeVars, priceVars, scheduledVars, compareVars, batchVars>>

SpecNormalize == InitNormalize /\ [][NextNormalize]_vars

InitFetch ==
  FetchInit /\ ExtractIdle /\ NormalizeIdle /\ RunIdle /\ ScrapeIdle /\ PriceIdle /\ ScheduledIdle /\ CompareIdle /\ BatchIdle /\ UpdaterIdle

NextFetch ==
  \/ ResponseEnd /\ UNCHANGED <<extractVars, normalizeVars, runVars, scrapeVars, priceVars, scheduledVars, compareVars, batchVars, updaterVars>>
  \/ RequestError /\ UNCHANGED <<extractVars, normalizeVars, runVars, scrapeVars, priceVars, scheduledVars, compareVars, batchVars, updaterVars>>
  \/ RetryTimer /\ UNCHANGED <<extractVars, normalizeVars, runVars, scrapeVars, priceVars, scheduledVars, compareVars, batchVars, updaterVars>>
  \/ RequestTimeout /\ UNCHANGED <<extractVars, normalizeVars, runVars, scrapeVars, priceVars, scheduledVars, compareVars, batchVars, updaterVars>>

SpecFetch == InitFetch /\ [][NextFetch]_vars

InitScrape ==
  ScrapeInit /\ ExtractIdle /\ NormalizeIdle /\ RunIdle /\ FetchIdle /\ PriceIdle /\ ScheduledIdle /\ CompareIdle /\ BatchIdle /\ UpdaterIdle

NextScrape ==
  \/ RejectCategory /\ UNCHANGED <<extractVars, normalizeVars, runVars, fetchVars, priceVars, scheduledVars, compareVars, batchVars, updaterVars>>
  \/ ScrapeCategoryPage /\ UNCHANGED <<extractVars, normalizeVars, runVars, fetchVars, priceVars, scheduledVars, compareVars, batchVars, updaterVars>>
  \/ ScrapeBatch /\ UNCHANGED <<extractVars, normalizeVars, runVars, fetchVars, priceVars, scheduledVars, compareVars, batchVars, updaterVars>>

SpecScrape == InitScrape /\ [][NextScrape]_vars

InitPrice ==
  PriceInit /\ ExtractIdle /\ NormalizeIdle /\ RunIdle /\ FetchIdle /\ ScrapeIdle /\ ScheduledIdle /\ CompareIdle /\ BatchIdle /\ UpdaterIdle

NextPrice ==
  \/ SkipUnmapped /\ UNCHANGED <<extractVars, normalizeVars, runVars, fetchVars, scrapeVars, scheduledVars, compareVars, batchVars, updaterVars>>
  \/ ScrapeEntry /\ UNCHANGED <<extractVars, normalizeVars, runVars, fetchVars, scrapeVars, scheduledVars, compareVars, batchVars, updaterVars>>
  \/ RateLimitWait /\ UNCHANGED <<extractVars, normalizeVars, runVars, fetchVars, scrapeVars, scheduledVars, compareVars, batchVars, updaterVars>>
  \/ ReturnUpdated /\ UNCHANGED <<extractVars, normalizeVars, runVars, fetchVars, scrapeVars, scheduledVars, compareVars, batchVars, updaterVars>>

SpecPrice == InitPrice /\ [][NextPrice]_vars

InitConcurrent ==
  ConcurrentInit /\ ExtractIdle /\ NormalizeIdle /\ FetchIdle /\ ScrapeIdle /\ CompareIdle /\ BatchIdle /\ UpdaterIdle

NextConcurrent ==
  \/ FullUpdate /\ UNCHANGED <<extractVars, normalizeVars, fetchVars, scrapeVars, priceVars, scheduledVars, compareVars, batchVars, updaterVars>>
  \/ SaveProductData /\ UNCHANGED <<extractVars, normalizeVars, fetchVars, scrapeVars, priceVars, scheduledVars, compareVars, batchVars, updaterVars>>
  \/ LoadProductData /\ UNCHANGED <<extractVars, normalizeVars, fetchVars, scrapeVars, compareVars, batchVars, updaterVars>>
  \/ SkipUnmapped /\ UNCHANGED <<extractVars, normalizeVars, runVars, fetchVars, scrapeVars, scheduledVars, compareVars, batchVars, updaterVars>>
  \/ ScrapeEntry /\ UNCHANGED <<extractVars, normalizeVars, runVars, fetchVars, scrapeVars, scheduledVars, compareVars, batchVars, updaterVars>>
  \/ RateLimitWait /\ UNCHANGED <<extractVars, normalizeVars, runVars, fetchVars, scrapeVars, scheduledVars, compareVars, batchVars, updaterVars>>
  \/ ReturnUpdated /\ UNCHANGED <<extractVars, normalizeVars, runVars, fetchVars, scrapeVars, scheduledVars, compareVars, batchVars, updaterVars>>
  \/ SaveUpdatedData /\ UNCHANGED <<extractVars, normalizeVars, fetchVars, scrapeVars, compareVars, batchVars, updaterVars>>

SpecConcurrent == InitConcurrent /\ [][NextConcurrent]_vars

InitCompare ==
  CompareInit /\ ExtractIdle /\ NormalizeIdle /\ RunIdle /\ FetchIdle /\ ScrapeIdle /\ PriceIdle /\ ScheduledIdle /\ BatchIdle /\ UpdaterIdle

NextCompare ==
  HandleCompareToggle /\ UNCHANGED <<extractVars, normalizeVars, runVars, fetchVars, scrapeVars, priceVars, scheduledVars, batchVars, updaterVars>>

SpecCompare == InitCompare /\ [][NextCompare]_vars

InitBatch ==
  BatchInit /\ ExtractIdle /\ NormalizeIdle /\ RunIdle /\ FetchIdle /\ ScrapeIdle /\ PriceIdle /\ ScheduledIdle /\ CompareIdle /\ UpdaterIdle

NextBatch ==
  \/ StartBatch /\ UNCHANGED <<extractVars, normalizeVars, runVars, fetchVars, scrapeVars, priceVars, scheduledVars, compareVars, updaterVars>>
  \/ BatchSettled /\ UNCHANGED <<extractVars, normalizeVars, runVars, fetchVars, scrapeVars, priceVars, scheduledVars, compareVars, updaterVars>>
  \/ NoBatch /\ UNCHANGED <<extractVars, normalizeVars, runVars, fetchVars, scrapeVars, priceVars, scheduledVars, compareVars, updaterVars>>
  \/ CallResponseEnd /\ UNCHANGED <<extractVars, normalizeVars, runVars, fetchVars, scrapeVars, priceVars, scheduledVars, compareVars, updaterVars>>
  \/ CallRequestError /\ UNCHANGED <<extractVars, normalizeVars, runVars, fetchVars, scrapeVars, priceVars, scheduledVars, compareVars, updaterVars>>
  \/ CallRetryTimer /\ UNCHANGED <<extractVars, normalizeVars, runVars, fetchVars, scrapeVars, priceVars, scheduledVars, compareVars, updaterVars>>
  \/ CallRequestTimeout /\ UNCHANGED <<extractVars, normalizeVars, runVars, fetchVars, scrapeVars, priceVars, scheduledVars, compareVars, updaterVars>>

SpecBatch == InitBatch /\ [][NextBatch]_vars

(***************************************************************************)
(* Properties                                                              *)
(***************************************************************************)

Synonyms ==
  { <<"renal", "kidney disease">>, <<"gastrointestinal", "digestive">>,
    <<"obesity", "weight management">>, <<"arthritis", "joint">>,
    <<"cardiac", "heart">> }

\* C1: the targetedConditions returned by extractProductData are closed
\* under the synonym mapping: a result holding "renal" holds "kidney
\* disease", and likewise for the other four pairs.
C1_SynonymsClosed ==
  extracted # NotYet =>
    \A pair \in Synonyms :
      pair[1] \in Range(extracted.targetedConditions)
        => pair[2] \in Range(extracted.targetedConditions)

\* the database updater has settled
UpdaterSettled == updateResult # NotYet

\* a category scrape failed: its request rejected, or its body has no
\* success flag
ScrapeFailed(r) == Rejected(r) \/ ~("success" \in DOMAIN r /\ r.success)

EntriesOf(products, i, raw, species) ==
  \A k \in 1..Len(raw) :
    /\ products[i + k].species = species
    /\ products[i + k].name = raw[k].name
    /\ products[i + k].link = raw[k].link

Kept(products) ==
  SelectSeq(products, LAMBDA p : p.name \notin {Null, ""} /\ p.brand \notin {Null, ""})

\* a returned entry's link, given the record it was built from
LinkOf(raw) == IF raw.link = Null THEN "https://www.1800petmeds.com" ELSE raw.link

\* entries are numbered product-1 .. product-n in output order
SequentialIds(entries) ==
  \A i \in 1..Len(entries) : entries[i].id = "product-" \o ToString(i)

C4_FailedRunWritesNothing ==
  (pc = "done" /\ response.statusCode = 500) => (fs = fsBefore /\ fsLog = <<>>)

\* a full update asked to save over an existing snapshot failed in
\* normalization, after both category scrapes had succeeded
C4_Witness ==
  /\ pc = "done"
  /\ response.statusCode = 500
  /\ query.saveToFile = "true"
  /\ fsBefore[DataPath] = OldSnapshot
  /\ Succeeded(dogResult) /\ Succeeded(catResult)

\* C5: when the write of the snapshot file fails, the run is reported as a
\* failure (success: false), never as a success.
C5_WriteFailureReported ==
  (pc = "done" /\ fsLog # <<>> /\ ~fsLog[Len(fsLog)].ok)
    => (response.statusCode = 500 /\ ~response.body.success)

\* C6: every overwrite of an existing snapshot file is preceded, in the same
\* run, by a copy of it to a timestamp-suffixed sibling, so the prior
\* content still exists after the write.
C6_BackupBeforeOverwrite ==
  \A i \in 1..Len(fsLog) :
    (fsLog[i].op = "writeFile" /\ fsLog[i].ok /\ fsBefore[DataPath] # Absent)
      => /\ \E j \in 1..(i - 1) : fsLog[j].op = "copyFile"
         /\ fs[BackupPath] = fsBefore[DataPath]

\* C7: saveToFile alone decides persistence: a successful run with
\* saveToFile true has written the snapshot file, whatever the other
\* options, and a run without it never writes.
C7_SaveToFileDecides ==
  (pc = "done" /\ response.statusCode = 200) =>
    IF query.saveToFile = "true"
    THEN \E i \in 1..Len(fsLog) : fsLog[i].op = "writeFile"
    ELSE fsLog = <<>> /\ fs = fsBefore

\* the number of records each category contributes to the run's result
CategoryCounts(res) ==
  IF "database" \in DOMAIN res
  THEN {res.database.categories.dog, res.database.categories.cat}
  ELSE IF "categories" \in DOMAIN res
  THEN {Len(ProductsOf(res.categories.dog)), Len(ProductsOf(res.categories.cat))}
  ELSE {Len(ProductsOf(res))}

\* C8: maxProducts caps every category on every run path, the full database
\* updater included.
C8_MaxProductsCaps ==
  (pc = "done" /\ response.statusCode = 200) =>
    \A n \in CategoryCounts(result) :
      n <= (IF query.maxProducts = Null THEN 30 ELSE parseInt(query.maxProducts))

\* C9: processProducts returns normally on every input, and every entry has
\* an image, a price and a feeding guide.
C9_NormalizationNeverFails ==
  allProducts # NotYet =>
    /\ "returned" \in DOMAIN allProducts
    /\ \A i \in 1..Len(allProducts.returned) :
         /\ "url" \in DOMAIN allProducts.returned[i].image
         /\ allProducts.returned[i].price # NoPrice
         /\ allProducts.returned[i].feedingGuide # Null

\* C10: the note of a price synthesized by processProducts differs from the
\* note of every price extractProductData builds.
C10_SynthesizedNoteDistinct ==
  "returned" \in DOMAIN allProducts =>
    \A i \in 1..Len(allProducts.returned) :
      "range" \notin DOMAIN allProducts.returned[i].price
        => allProducts.returned[i].price.note # ScrapedPrice.note

\* C11: every number in an extracted price (estimate, average, both ends of
\* the range) lies strictly between 5 and 500, and the price stays null
\* when no matched number lies in that interval.
C11_PriceWithinBounds ==
  extracted # NotYet =>
    LET price == extracted.price
        inside == {i \in 1..Len(matches.prices) :
                     /\ parseFloat(matches.prices[i]) > 500
                     /\ parseFloat(matches.prices[i]) < 50000}
    IN /\ inside = {} => price = NoPrice
       /\ price # NoPrice =>
            /\ price.estimate > 500 /\ price.estimate < 50000
            /\ price.average.num > 500 * price.average.den
            /\ price.average.num < 50000 * price.average.den
            /\ \A k \in {2, 4} \cap DOMAIN price.range :
                 /\ parseFloat(price.range[k]) > 500
                 /\ parseFloat(price.range[k]) < 50000

\* a price was extracted from a page that also shows the two ends of the
\* interval, 5 and 500
C11_Witness ==
  /\ extracted # NotYet
  /\ extracted.price # NoPrice
  /\ {"5", "500"} \subseteq Range(matches.prices)

\* the distinct plausible prices a page shows
DistinctPlausible(literals) ==
  {c \in {parseFloat(literals[i]) : i \in 1..Len(literals)} : c > 500 /\ c < 50000}

RECURSIVE SetSum(_)
SetSum(S) == IF S = {} THEN 0 ELSE LET x == CHOOSE x \in S : TRUE
                                   IN x + SetSum(S \ {x})

SetMin(S) == CHOOSE x \in S : \A y \in S : x <= y
SetMax(S) == CHOOSE x \in S : \A y \in S : x >= y

\* C12: with P the non-empty set of distinct plausible prices of a page
\* (fetched from its address, a string), estimate is min(P), average is
\* the mean of P with each distinct value counted once, and range is "$min - $max" when P has several values and
\* "$min" when it has one; 52.99 and 54.99 give 52.99, 53.99 and
\* "$52.99 - $54.99".
C12_PriceSummary ==
  (extracted # NotYet /\ pageUrl # Null) =>
    LET P == DistinctPlausible(matches.prices)
        price == extracted.price
    IN P # {} =>
         /\ price # NoPrice
         /\ price.estimate = SetMin(P)
         /\ price.average.num * Cardinality(P) = SetSum(P) * price.average.den
         /\ price.average.den > 0
         /\ price.range = IF Cardinality(P) > 1
                          THEN <<"$", numberToString(SetMin(P)), " - $",
                                 numberToString(SetMax(P))>>
                          ELSE <<"$", numberToString(SetMin(P))>>
         /\ P = {5299, 5499} =>
              /\ price.estimate = 5299
              /\ price.average.num = 5399 * price.average.den
              /\ price.range = <<"$", "52.99", " - $", "54.99">>

\* a page matched 54.99 twice, once written 54.990, and 52.99 once
C12_Witness ==
  /\ extracted # NotYet
  /\ matches.prices = <<"54.99", "52.99", "54.990">>
  /\ extracted.price.average = [num |-> 10798, den |-> 2]

\* C13: the returned record has at most 5 bag sizes, at most 4 targeted
\* conditions and at most 4 features, and none of the three lists holds a
\* value twice.
C13_ListsCappedAndDistinct ==
  extracted # NotYet =>
    /\ Len(extracted.bagSizes) <= 5
    /\ Len(extracted.targetedConditions) <= 4
    /\ Len(extracted.features) <= 4
    /\ \A list \in {extracted.bagSizes, extracted.targetedConditions, extracted.features} :
         \A i, j \in 1..Len(list) : list[i] = list[j] => i = j

\* a page matched six distinct sizes and returned five of them
C13_Witness ==
  /\ extracted # NotYet
  /\ Cardinality(Range(matches.sizes)) = 6
  /\ Len(extracted.bagSizes) = 5

\* the request failed in transport
FailedInTransport(q) == "error" \in DOMAIN q.outcome
\* the request was answered with a 2xx status
Answered2xx(q) ==
  "status" \in DOMAIN q.outcome /\ q.outcome.status >= 200 /\ q.outcome.status < 300
\* the request ran into the 30-second timeout
TimedOut(q) == "timeout" \in DOMAIN q.outcome

\* C14: as long as the requests of a call fetchPage(url, r) meet nothing but
\* transport errors and 2xx answers: each request after the first is a
\* retry started by the 1-second timer after a failed one; never more than
\* r+1 requests are made; while a failed request has a retry left the call
\* is pending with the timer armed; the call rejects exactly when request
\* r+1 has failed, with that request's error; a 2xx answer resolves the
\* call with that body and is the last request.
C14_TransportErrorsRetried ==
  LET n == Len(fetchLog)
  IN (\A i \in 1..n : \/ fetchLog[i].outcome = Pending
                      \/ FailedInTransport(fetchLog[i])
                      \/ Answered2xx(fetchLog[i]))
     =>
     /\ n <= fetchRetries + 1
     /\ \A i \in 2..n :
          /\ FailedInTransport(fetchLog[i - 1])
          /\ fetchLog[i].after = "timer" /\ fetchLog[i].delay = 1000
          /\ fetchLog[i].url = fetchLog[1].url
     /\ (FailedInTransport(fetchLog[n]) /\ n < fetchRetries + 1)
          => (fetchSettled = NotYet /\ fetchPhase = "wait")
     /\ (FailedInTransport(fetchLog[n]) /\ n = fetchRetries + 1)
          => /\ fetchSettled = [rejected |-> [error |-> "ECONNRESET", request |-> n]]
             /\ fetchPhase = "stopped"
     /\ "rejected" \in DOMAIN fetchSettled
          => (n = fetchRetries + 1 /\ FailedInTransport(fetchLog[n]))
     /\ \A i \in 1..n :
          Answered2xx(fetchLog[i])
            => /\ i = n
               /\ fetchSettled = [resolved |-> [html |-> fetchLog[i].url]]
               /\ fetchPhase = "stopped"
     /\ "resolved" \in DOMAIN fetchSettled => Answered2xx(fetchLog[n])

\* a call with the default three retries has rejected after four requests
\* that all failed in transport
C14_Witness ==
  /\ fetchRetries = 3
  /\ Len(fetchLog) = 4
  /\ \A i \in 1..4 : FailedInTransport(fetchLog[i])
  /\ "rejected" \in DOMAIN fetchSettled

\* a call whose third request was answered 200 after two transport errors
C14_WitnessResolved ==
  /\ fetchRetries = 3
  /\ Len(fetchLog) = 3
  /\ FailedInTransport(fetchLog[1]) /\ FailedInTransport(fetchLog[2])
  /\ "resolved" \in DOMAIN fetchSettled

\* C15: a request that runs into the 30-second timeout while a retry is
\* left does not settle the call: the call is still pending when the
\* timeout callback has run.
C15_TimeoutRetried ==
  (fetchPhase = "destroyed" /\ fetchLog[Len(fetchLog)].retries > 0)
    => fetchSettled = NotYet

\* the response is neither a 2xx nor a 3xx that has a Location
NonSuccess(res) ==
  /\ "status" \in DOMAIN res
  /\ ~(res.status >= 200 /\ res.status < 300)
  /\ ~(res.status >= 300 /\ res.status < 400 /\ res.location # "null")

ScrapeDone == scrapePc = "done" /\ scrapeEvent.category \in {"dog", "cat"}

\* C17: when the fetch of the listing page fails, the category scrape
\* reports an error, not a successful result with no products.
C17_ListingFailurePropagated ==
  (ScrapeDone /\ scrapeSite.listing = "unreachable")
    => (scrapeResponse.statusCode # 200 /\ "success" \notin DOMAIN scrapeResponse.body)

\* C18: whichever of the discovered links fail to be fetched or yield a
\* record without name or brand, the category scrape completes
\* successfully and its products are exactly the records of the other
\* links, in link order: no null, no unusable record, none of a failed link.
C18_FailedLinksSkipped ==
  (ScrapeDone /\ Len(scrapeLinks) > 0) =>
    LET good == SelectSeq(scrapeLinks,
                  LAMBDA page : /\ "fetchFailed" \notin DOMAIN page
                                /\ page.name # "null" /\ page.brand # "null")
    IN /\ scrapeResponse.statusCode = 200
       /\ scrapeResponse.body.success
       /\ scrapeResponse.body.products = good
       /\ scrapeResponse.body.totalFound = Len(good)
       /\ pageFetches = [k \in 1..Len(scrapeLinks) |-> k]

\* a scrape of six links, two of them failing and two yielding unusable
\* records, returned the records of the other two
C18_Witness ==
  /\ ScrapeDone
  /\ scrapeLinks = <<FetchFailed, FullRecord, NoNameRecord, NoBrandRecord,
                      FetchFailed, FullRecord>>
  /\ scrapeResponse.body.products = <<FullRecord, FullRecord>>

\* a scrape all of whose links failed or were unusable completed with no
\* products
C18_WitnessAllFail ==
  /\ ScrapeDone
  /\ scrapeLinks = <<FetchFailed, NoNameRecord, FetchFailed>>
  /\ scrapeResponse.statusCode = 200
  /\ scrapeResponse.body.products = <<>>

\* C19: a category scrape whose link discovery yields an empty list returns
\* a successful result with an empty product list, has fetched no product
\* page and reports no error.
C19_EmptyDiscoverySucceeds ==
  (ScrapeDone /\ scrapeLinks = <<>>) =>
    /\ scrapeResponse.statusCode = 200
    /\ scrapeResponse.body.success
    /\ scrapeResponse.body.products = <<>>
    /\ "error" \notin DOMAIN scrapeResponse.body
    /\ pageFetches = <<>>

\* the listing page was fetched and held no product link
C19_Witness ==
  /\ ScrapeDone
  /\ scrapeSite = [listing |-> "ok", pages |-> <<>>]
  /\ scrapeLinks = <<>>
  /\ scrapeResponse # NotYet

\* the fields of an entry other than price
OtherFields(entry) == [f \in DOMAIN entry \ {"price"} |-> entry[f]]

\* the scrape made for entry i, as the log has it
ScrapeOf(i) ==
  LET made == SelectSeq(priceLog, LAMBDA e : e.event = "scrape" /\ e.entry = i)
  IN made[1].result

\* C20: updateProductPrices returns a list of the same length and order as
\* its input, each entry equal to the input entry in every field other
\* than price; an entry without mapping, an entry whose scrape gives no
\* average price and an entry whose scrape throws come back identical to
\* the input, and the entries after them are still processed.
C20_OnlyPricesChange ==
  /\ Len(updatedProducts) <= Len(priceProducts)
  /\ \A i \in 1..Len(updatedProducts) :
       /\ OtherFields(updatedProducts[i]) = OtherFields(priceProducts[i])
       /\ DOMAIN updatedProducts[i] = DOMAIN priceProducts[i]
       /\ \/ priceProducts[i].id \notin DOMAIN PRODUCT_MAPPINGS
          \/ "threw" \in DOMAIN ScrapeOf(i)
          \/ ScrapeOf(i).statusCode # 200
          \/ ScrapeOf(i).body.averagePrice = 0
          => updatedProducts[i] = priceProducts[i]
  /\ Len(updatedProducts) = priceIdx + (IF pricePc = "waiting" THEN 1 ELSE 0)
  /\ priceReturned # NotYet =>
       /\ Len(priceReturned.returned) = Len(priceProducts)
       /\ priceReturned.returned = updatedProducts

\* a list whose first entry's scrape threw, whose second has no mapping and
\* whose third got a new price was returned
C20_Witness ==
  /\ priceReturned # NotYet
  /\ Len(priceProducts) = 3
  /\ priceProducts[1].id = "hills-kd-dog-dry"
  /\ priceProducts[2].id = "product-1"
  /\ priceProducts[3].id = "rc-renal-dog-dry"
  /\ "threw" \in DOMAIN ScrapeOf(1)
  /\ priceReturned.returned[1] = priceProducts[1]
  /\ priceReturned.returned[3].price # priceProducts[3].price

FullUpdatePersisted ==
  /\ pc = "done"
  /\ \E i \in 1..Len(fsLog) : fsLog[i].op = "writeFile" /\ fsLog[i].ok

\* C22: no update is lost between a persisting full update and a price
\* reconciliation run: once the full update has written its snapshot, the
\* snapshot file holds that snapshot, or what a reconciliation run made of
\* that snapshot after loading it, or the remains of a failed write; it
\* never holds entries that were read from the file before the full update
\* wrote.
C22_NoLostUpdate ==
  FullUpdatePersisted =>
    \/ fs[DataPath] = result.database
    \/ fs[DataPath] = Truncated
    \/ productData = result.database

\* the ids of a list, in order
IdsOf(items) == [i \in 1..Len(items) |-> items[i].id]

\* C23: after any sequence of compare toggles the comparison list holds at
\* most three products, no two of them with the same id; a toggle of a
\* listed product removes exactly that product, a toggle of an unlisted one
\* appends it when fewer than three are selected and leaves the list as it
\* was when three are selected.
C23_CompareListBounded ==
  /\ Len(compareItems) <= 3
  /\ \A i, j \in 1..Len(compareItems) :
       compareItems[i].id = compareItems[j].id => i = j
  /\ toggled # NotYet =>
       IF toggled.id \in Range(IdsOf(compareBefore))
       THEN /\ Len(compareItems) = Len(compareBefore) - 1
            /\ toggled.id \notin Range(IdsOf(compareItems))
            /\ compareItems = SelectSeq(compareBefore, LAMBDA item : item # toggled)
       ELSE IF Len(compareBefore) < 3
       THEN compareItems = compareBefore \o <<toggled>>
       ELSE compareItems = compareBefore

\* three products are selected and a fourth was toggled
C23_Witness ==
  /\ toggled # NotYet
  /\ Len(compareBefore) = 3
  /\ toggled.id \notin Range(IdsOf(compareBefore))
  /\ compareItems = compareBefore

\* the second of three selected products was toggled and is gone
C23_WitnessRemoved ==
  /\ toggled # NotYet
  /\ Len(compareBefore) = 3
  /\ compareBefore[2] = toggled
  /\ compareItems = <<compareBefore[1], compareBefore[3]>>

\* C24: at every moment at most five product-page requests of one category
\* scrape are in flight, the requests made by the retries of fetchPage
\* included, because a batch is not started before every fetch of the batch
\* before it has settled.
C24_AtMostFiveInFlight == InFlight(calls) <= concurrencyLimit

\* C25: the product name has precedence over the markup: a name with 'cat'
\* and without 'dog' gives species 'cat' whatever the markup holds, a name
\* with 'wet' or 'can' and without 'dry' gives type 'wet' whatever the
\* markup holds, and the markup decides only when the name decides nothing.
C25_NameBeforeMarkup ==
  (extracted # NotYet /\ matches.string /\ pageUrl # Null) =>
    /\ ("cat" \in matches.name /\ "dog" \notin matches.name)
         => extracted.species = "cat"
    /\ ({"wet", "can"} \cap matches.name # {} /\ "dry" \notin matches.name)
         => extracted.type = "wet"

NormalizerSnapshot(entries) ==
  \A i \in 1..Len(entries) : entries[i].id = "product-" \o ToString(i)

\* C28: no id the normalizer assigns (product-<n>) is a key of
\* PRODUCT_MAPPINGS, so a price-reconciliation run over a snapshot of the
\* normalizer makes no retailer scrape and returns every entry unchanged.
C28_NormalizerIdsUnmapped ==
  /\ \A n \in 1..(2 * MaxRecs + MaxEntries) :
       ("product-" \o ToString(n)) \notin DOMAIN PRODUCT_MAPPINGS
  /\ NormalizerSnapshot(priceProducts) =>
       /\ priceLog = <<>>
       /\ updatedProducts = SubSeq(priceProducts, 1, priceIdx)
       /\ priceReturned # NotYet => priceReturned.returned = priceProducts

\* a run over a snapshot the normalizer built from four records has returned
C28_Witness ==
  /\ Len(priceProducts) = 2 * MaxRecs
  /\ NormalizerSnapshot(priceProducts)
  /\ "species" \in DOMAIN priceProducts[1]
  /\ priceReturned # NotYet
  /\ priceReturned.returned = priceProducts

\* C29: every fetchPage call settles after a bounded number of requests,
\* whatever the server answers, redirects that lead back into their own
\* chain included: a call that has not settled never follows a redirect to
\* a URL it has already requested with the same retries. (fetchPage keeps
\* nothing but url and retries from one request to the next, so a call that
\* is back at a pair it has been at can go round again without end.)
C29_RequestsBounded ==
  fetchSettled = NotYet =>
    \A i, j \in 1..Len(fetchLog) :
      (i < j /\ fetchLog[j].after = "redirect")
        => ~(/\ fetchLog[i].url = fetchLog[j].url
             /\ fetchLog[i].retries = fetchLog[j].retries)

\* C30: once a fetchPage call has settled, by the 30-second timeout as by
\* anything else, it has no request under way and no retry timer armed.
C30_QuietOnceSettled ==
  fetchSettled # NotYet => fetchPhase \notin {"request", "wait"}

====
